---- MODULE Spec2Model ----
(***************************************************************************)
(* Model of the mobile client's location tracking, fix handling, tourist   *)
(* registration and safety-notification services.                         *)
(*   services/locationTracking.ts  tracking state, background task,        *)
(*                                 foreground watcher, fix handlers        *)
(*   services/notifications.ts     createSafetyAlert and its callers       *)
(*   RegisterScreen / HomeScreen   the safety score                        *)
(*   services/emergency.ts         triggerPanicAlert and the emergency     *)
(*                                 buttons of EmergencyScreen / HomeScreen *)
(*   database schema script        auto_resolve_old_alerts, system_settings*)
(***************************************************************************)
EXTENDS Integers, Sequences, FiniteSets

\* ------------------------------------------------------------------ bounds
MaxTime == 2        \* fix timestamps are 1..MaxTime
MaxFixes == 2       \* location deliveries by the OS over a run
MaxBatch == 2       \* locations in one background delivery
MaxInFlight == 2    \* start/stop calls suspended at an await at one time
MaxSubs == 1        \* foreground subscriptions the OS keeps alive
MaxWatchers == 2    \* the same, in the runs that restart tracking
MaxAlerts == 2      \* createSafetyAlert calls over a run
MaxReads == 2       \* markNotificationAsRead calls over a run
MaxRegs == 2        \* handleRegister calls over a run
MaxPanics == 2      \* emergency button presses over a run
MaxAlertRows == 2   \* rows of table alerts when auto-resolution runs
MaxClock == 3       \* the database clock runs up to MaxClock half days
MaxRuns == 2        \* processBackgroundNotifications runs over a run
MaxWatchCalls == 3  \* services/location.ts startLocationTracking calls over a run

\* ------------------------------------------------------------------ values
TouristIds == {"t1", "t2"}
Tracked == {"t1"}                         \* the touristId the screens pass to the tracking service
NoTourist == "null"                       \* trackingState.touristId === null

Positions == {"outside", "inRestricted", "inSafe"}
Times == 1..MaxTime
Fixes == [timestamp : Times, pos : Positions]
\* data.locations of one background delivery
Batches == UNION { [1..n -> Fixes] : n \in 1..MaxBatch }
StartPcs == {"background", "foreground"}   \* the await a start call is suspended at

NoFix == [timestamp |-> 0, pos |-> "none"]   \* lastLocation === null

\* The rows of the geofences table the hazard check selects (active = true).
Geofences ==
    { [name |-> "R", type |-> "restricted", risk_level |-> 5, cells |-> {"inRestricted"}],
      [name |-> "S", type |-> "safe",       risk_level |-> 1, cells |-> {"inSafe"}],
      [name |-> "T", type |-> "tourist_zone", risk_level |-> 2, cells |-> {"inSafe"}] }

\* Geometry Engine contains(zone, point): the zone's geometry covers the point.
Contains(zone, pos) == pos \in zone.cells

ZonesContaining(pos) == { z \in Geofences : Contains(z, pos) }


\* ------------------------------------------------------------------ state
VARIABLES
    trackingState,   \* locationTracking.ts: the module-level tracking object
    bgActive,        \* background updates registered for LOCATION_TASK_NAME
    fgSubs,          \* active watchPositionAsync subscriptions: touristId -> count
    starts,          \* startLocationTracking calls suspended at an await
    stopsInFlight,   \* stopLocationTracking calls suspended at their await
    tasks,           \* fix handler invocations, in delivery order
    location_logs,   \* rows of table location_logs, in insertion order
    startReturns,    \* touristId -> startLocationTracking(touristId) returned true
                     \* at its already-active guard since tracking was last stopped
    tourists,        \* rows of table tourists: id -> safety_score, or NotRegistered
    safetyScore,     \* HomeScreen's safetyScore state
    notifications,   \* rows of table notifications; the row id is the index
    alertCalls,      \* createSafetyAlert calls suspended at an await
    nAlerts,         \* createSafetyAlert calls made so far
    nReads,          \* markNotificationAsRead calls made so far
    regCalls,        \* RegisterScreen.handleRegister calls suspended at an await
    nRegs,           \* handleRegister calls made so far
    alerts,          \* rows of table alerts; the row id is the index
    communications,  \* rows of table communications, in insertion order
    panicCalls,      \* emergency button presses in order: at an await, or finished
    dbNow,           \* the database clock NOW(), in hours
    system_settings, \* rows of table system_settings: setting_key -> setting_value
    notifyRuns,      \* processBackgroundNotifications runs in order: at an await, or finished
    locationSubscription, \* services/location.ts: the module-level subscription (0: null)
    watchers,        \* services/location.ts: ids of the position watchers the OS keeps alive
    pendingWatches,  \* services/location.ts: startLocationTracking calls at their await
    nWatchCalls,     \* services/location.ts: startLocationTracking calls made so far
    stopIsLastCall,  \* services/location.ts: stopLocationTracking was the last call made
    scheduled        \* notifications the OS scheduler accepted: identifier, row, received

trackVars == <<trackingState, bgActive, fgSubs, starts, stopsInFlight,
               tasks, location_logs, startReturns>>
scoreVars == <<tourists, safetyScore, regCalls, nRegs>>
alertVars == <<notifications, alertCalls, nAlerts, nReads>>
emergencyVars == <<alerts, communications, panicCalls, dbNow, system_settings>>
clientVars == <<notifyRuns, locationSubscription, watchers, pendingWatches, nWatchCalls,
                stopIsLastCall, scheduled>>
vars == <<trackingState, bgActive, fgSubs, starts, stopsInFlight, tasks,
          location_logs, startReturns, tourists, safetyScore, notifications, alertCalls, nAlerts,
          nReads, regCalls, nRegs, alerts, communications, panicCalls, dbNow,
          system_settings, notifyRuns, locationSubscription, watchers, pendingWatches,
          nWatchCalls, stopIsLastCall, scheduled>>

NotRegistered == -1

\* RegisterScreen.handleRegister: touristData.safety_score
InitialSafetyScore == 50

\* HomeScreen: useState(75)
HomeInitialSafetyScore == 75

TrackingIdle ==
    /\ trackingState = [isTracking |-> FALSE, touristId |-> NoTourist, lastLocation |-> NoFix]
    /\ bgActive = FALSE
    /\ fgSubs = [t \in TouristIds |-> 0]
    /\ starts = [t \in TouristIds |-> [pc \in StartPcs |-> 0]]
    /\ stopsInFlight = 0
    /\ tasks = <<>>
    /\ location_logs = <<>>
    /\ startReturns = [t \in TouristIds |-> FALSE]

AlertsIdle ==
    /\ notifications = <<>>
    /\ alertCalls = {}
    /\ nAlerts = 0
    /\ nReads = 0

NullTime == 0 - 1                          \* a timestamp column that is NULL

\* A weights row whose route_deviation entry was entered as 0.25.
SafetyScoreWeightsSkewed ==
    [location_risk |-> 30, weather |-> 20, group_size |-> 20, time_of_day |-> 15,
     route_deviation |-> 25]

\* system_settings seed row 'tourist_safety_score_weights'; the JSON decimals
\* 0.3, 0.2, 0.2, 0.15, 0.15 are held exactly, in hundredths.
SafetyScoreWeights ==
    [location_risk |-> 30, weather |-> 20, group_size |-> 20, time_of_day |-> 15,
     route_deviation |-> 15]

\* The seeded database: no alert and no communication yet, the default settings.
EmergencyIdle ==
    /\ alerts = <<>>
    /\ communications = <<>>
    /\ panicCalls = <<>>
    /\ dbNow = 0
    /\ system_settings = [k \in {"tourist_safety_score_weights"} |-> SafetyScoreWeights]

\* No background notification run yet; services/location.ts as loaded.
ClientIdle ==
    /\ notifyRuns = <<>>
    /\ locationSubscription = 0
    /\ watchers = {}
    /\ pendingWatches = {}
    /\ nWatchCalls = 0
    /\ stopIsLastCall = FALSE
    /\ scheduled = {}

\* A fresh install: nobody is registered, nothing is tracked.
Init ==
    /\ TrackingIdle
    /\ AlertsIdle
    /\ ClientIdle
    /\ EmergencyIdle
    /\ tourists = [t \in TouristIds |-> NotRegistered]
    /\ regCalls = {}
    /\ nRegs = 0
    /\ safetyScore = HomeInitialSafetyScore

\* The tracking service runs on the device of tourist t1, whose id either has
\* a row in tourists (RegisterScreen) or has none (HomeScreen's fixed demo id).
TrackInit ==
    /\ TrackingIdle
    /\ AlertsIdle
    /\ ClientIdle
    /\ ClientIdle
    /\ EmergencyIdle
    /\ tourists \in { [t \in TouristIds |-> IF t \in R THEN InitialSafetyScore
                                                         ELSE NotRegistered] :
                       R \in {{}, Tracked} }
    /\ regCalls = {}
    /\ nRegs = 0
    /\ safetyScore = HomeInitialSafetyScore

\* ------------------------------------------------- startLocationTracking
RECURSIVE Total(_, _)
Total(f, S) == IF S = {} THEN 0
               ELSE LET x == CHOOSE y \in S : TRUE IN f[x] + Total(f, S \ {x})

InFlightStarts == Total([k \in TouristIds \X StartPcs |-> starts[k[1]][k[2]]],
                        TouristIds \X StartPcs)
ActiveSubs == Total(fgSubs, TouristIds)

\* Entry up to the first await: the isTracking guard, then the two assignments.
\* With tracking already active the call returns true and changes nothing.
StartCall(t) ==
    /\ InFlightStarts + stopsInFlight < MaxInFlight
    /\ ~trackingState.isTracking
    /\ trackingState' = [trackingState EXCEPT !.touristId = t, !.isTracking = TRUE]
    /\ starts' = [starts EXCEPT ![t]["background"] = @ + 1]
    /\ UNCHANGED <<bgActive, fgSubs, stopsInFlight, tasks, location_logs>>
    /\ UNCHANGED <<startReturns, scoreVars, alertVars, emergencyVars, clientVars>>

\* await Location.startLocationUpdatesAsync resolves.
StartBackgroundOk(t) ==
    /\ starts[t]["background"] > 0
    /\ bgActive' = TRUE
    /\ starts' = [starts EXCEPT ![t]["background"] = @ - 1, ![t]["foreground"] = @ + 1]
    /\ UNCHANGED <<trackingState, fgSubs, stopsInFlight, tasks, location_logs>>
    /\ UNCHANGED <<startReturns, scoreVars, alertVars, emergencyVars, clientVars>>

\* An await of startLocationTracking rejects: the catch block.
StartCatch(t, pc) ==
    /\ starts[t][pc] > 0
    /\ trackingState' = [trackingState EXCEPT !.isTracking = FALSE]
    /\ starts' = [starts EXCEPT ![t][pc] = @ - 1]
    /\ UNCHANGED <<bgActive, fgSubs, stopsInFlight, tasks, location_logs>>
    /\ UNCHANGED <<startReturns, scoreVars, alertVars, emergencyVars, clientVars>>

\* await Location.watchPositionAsync resolves: the subscription is live and is
\* held only by the local const foregroundSubscription.
StartForegroundWithin(t, maxSubs) ==
    /\ starts[t]["foreground"] > 0
    /\ ActiveSubs < maxSubs
    /\ fgSubs' = [fgSubs EXCEPT ![t] = @ + 1]
    /\ starts' = [starts EXCEPT ![t]["foreground"] = @ - 1]
    /\ UNCHANGED <<trackingState, bgActive, stopsInFlight, tasks, location_logs>>
    /\ UNCHANGED <<startReturns, scoreVars, alertVars, emergencyVars, clientVars>>

StartForegroundOk(t) == StartForegroundWithin(t, MaxSubs)

\* -------------------------------------------------- stopLocationTracking
\* Entry up to the await; with tracking inactive the call returns at once.
StopCall ==
    /\ InFlightStarts + stopsInFlight < MaxInFlight
    /\ trackingState.isTracking
    /\ stopsInFlight' = stopsInFlight + 1
    /\ UNCHANGED <<trackingState, bgActive, fgSubs, starts, tasks, location_logs>>
    /\ UNCHANGED <<startReturns, scoreVars, alertVars, emergencyVars, clientVars>>

\* await Location.stopLocationUpdatesAsync resolves, then the three resets.
StopOk ==
    /\ stopsInFlight > 0
    /\ stopsInFlight' = stopsInFlight - 1
    /\ bgActive' = FALSE
    /\ trackingState' = [isTracking |-> FALSE, touristId |-> NoTourist, lastLocation |-> NoFix]
    /\ startReturns' = [t \in TouristIds |-> FALSE]
    /\ UNCHANGED <<fgSubs, starts, tasks, location_logs>>
    /\ UNCHANGED <<scoreVars, alertVars, emergencyVars, clientVars>>

\* stopLocationUpdatesAsync rejects: logged, nothing reset.
StopCatch ==
    /\ stopsInFlight > 0
    /\ stopsInFlight' = stopsInFlight - 1
    /\ UNCHANGED <<trackingState, bgActive, fgSubs, starts, tasks, location_logs>>
    /\ UNCHANGED <<startReturns, scoreVars, alertVars, emergencyVars, clientVars>>

\* ------------------------------------------------------- fix handlers
\* One invocation of the background task or of the foreground watch callback.
\*   pc       where the handler is suspended: "log" (logLocationToDatabase),
\*            "geofences" and "hazards" (the two queries of checkForHazards), "done"
\*   stored   the location_logs insert succeeded
\*   logged   console.error was called for this invocation
\*   checked  "Hazard check completed" was logged
NewTask(src, t, fix, pc) ==
    [src |-> src, touristId |-> t, fix |-> fix, pc |-> pc,
     stored |-> FALSE, logged |-> FALSE, checked |-> FALSE]

\* TaskManager.defineTask callback, up to its first await: only locations[0] of
\* the delivered batch is handled.
DeliverBackground(locations) ==
    /\ bgActive
    /\ Len(tasks) < MaxFixes
    /\ tasks' = Append(tasks,
                  IF trackingState.touristId # NoTourist
                  THEN NewTask("background", trackingState.touristId, locations[1], "log")
                  ELSE NewTask("background", NoTourist, locations[1], "done"))
    /\ UNCHANGED <<trackingState, bgActive, fgSubs, starts, stopsInFlight, location_logs>>
    /\ UNCHANGED <<startReturns, scoreVars, alertVars, emergencyVars, clientVars>>

\* The background task is invoked with an error: logged, return.
DeliverBackgroundError ==
    /\ bgActive
    /\ Len(tasks) < MaxFixes
    /\ tasks' = Append(tasks,
                  [NewTask("background", NoTourist, NoFix, "done") EXCEPT !.logged = TRUE])
    /\ UNCHANGED <<trackingState, bgActive, fgSubs, starts, stopsInFlight, location_logs>>
    /\ UNCHANGED <<startReturns, scoreVars, alertVars, emergencyVars, clientVars>>

\* The watchPositionAsync callback of a subscription started for tourist t,
\* up to its first await.
DeliverForeground(t, location) ==
    /\ fgSubs[t] > 0
    /\ Len(tasks) < MaxFixes
    /\ trackingState' = [trackingState EXCEPT !.lastLocation = location]
    /\ tasks' = Append(tasks, NewTask("foreground", t, location, "log"))
    /\ UNCHANGED <<bgActive, fgSubs, starts, stopsInFlight, location_logs>>
    /\ UNCHANGED <<startReturns, scoreVars, alertVars, emergencyVars, clientVars>>

\* The touristId the handler passes to checkForHazards: the background task
\* reads trackingState.touristId again after the await, the watcher uses the
\* touristId of its closure.
HazardTourist(task) ==
    IF task.src = "background" THEN trackingState.touristId ELSE task.touristId

\* location_logs.tourist_id REFERENCES tourists(id)
InsertAccepted(t) == t \in TouristIds /\ tourists[t] # NotRegistered

LocationRow(t, fix) == [tourist_id |-> t, timestamp |-> fix.timestamp, pos |-> fix.pos]

\* logLocationToDatabase: the insert resolves without an error.
LogLocationOk(i) ==
    /\ i \in DOMAIN tasks /\ tasks[i].pc = "log"
    /\ InsertAccepted(tasks[i].touristId)
    /\ location_logs' = Append(location_logs, LocationRow(tasks[i].touristId, tasks[i].fix))
    /\ tasks' = [tasks EXCEPT ![i].pc = "geofences", ![i].stored = TRUE,
                              ![i].touristId = HazardTourist(tasks[i])]
    /\ UNCHANGED <<trackingState, bgActive, fgSubs, starts, stopsInFlight>>
    /\ UNCHANGED <<startReturns, scoreVars, alertVars, emergencyVars, clientVars>>

\* logLocationToDatabase: the insert returns an error or rejects; console.error.
LogLocationError(i) ==
    /\ i \in DOMAIN tasks /\ tasks[i].pc = "log"
    /\ tasks' = [tasks EXCEPT ![i].pc = "geofences", ![i].logged = TRUE,
                              ![i].touristId = HazardTourist(tasks[i])]
    /\ UNCHANGED <<trackingState, bgActive, fgSubs, starts, stopsInFlight, location_logs>>
    /\ UNCHANGED <<startReturns, scoreVars, alertVars, emergencyVars, clientVars>>

\* checkForHazards: the geofences query resolved; the hazards query is awaited.
GeofenceQueryOk(i) ==
    /\ i \in DOMAIN tasks /\ tasks[i].pc = "geofences"
    /\ tasks' = [tasks EXCEPT ![i].pc = "hazards"]
    /\ UNCHANGED <<trackingState, bgActive, fgSubs, starts, stopsInFlight, location_logs>>
    /\ UNCHANGED <<startReturns, scoreVars, alertVars, emergencyVars, clientVars>>

\* A hazard check whose failure tears the tracking session down.
HazardCheckErrorStopsTracking(i) ==
    /\ i \in DOMAIN tasks /\ tasks[i].pc \in {"geofences", "hazards"}
    /\ tasks' = [tasks EXCEPT ![i].pc = "done", ![i].logged = TRUE]
    /\ trackingState' = [trackingState EXCEPT !.isTracking = FALSE, !.touristId = NoTourist]
    /\ bgActive' = FALSE
    /\ UNCHANGED <<fgSubs, starts, stopsInFlight, location_logs>>
    /\ UNCHANGED <<startReturns, scoreVars, alertVars, emergencyVars, clientVars>>

\* checkForHazards: a query returned an error or rejected; console.error, return.
HazardCheckError(i) ==
    /\ i \in DOMAIN tasks /\ tasks[i].pc \in {"geofences", "hazards"}
    /\ tasks' = [tasks EXCEPT ![i].pc = "done", ![i].logged = TRUE]
    /\ UNCHANGED <<trackingState, bgActive, fgSubs, starts, stopsInFlight, location_logs>>
    /\ UNCHANGED <<startReturns, scoreVars, alertVars, emergencyVars, clientVars>>

\* checkForHazards: both queries resolved; the rows are not looked at, the check
\* is logged as completed and nothing else is written.
HazardCheckCompleted(i) ==
    /\ i \in DOMAIN tasks /\ tasks[i].pc = "hazards"
    /\ tasks' = [tasks EXCEPT ![i].pc = "done", ![i].checked = TRUE]
    /\ UNCHANGED <<trackingState, bgActive, fgSubs, starts, stopsInFlight, location_logs>>
    /\ UNCHANGED <<startReturns, scoreVars, alertVars, emergencyVars, clientVars>>

TrackNext ==
    \/ \E t \in Tracked : StartCall(t)
    \/ \E t \in Tracked : StartBackgroundOk(t)
    \/ \E t \in Tracked, pc \in StartPcs : StartCatch(t, pc)
    \/ \E t \in Tracked : StartForegroundOk(t)
    \/ StopCall
    \/ StopOk
    \/ StopCatch
    \/ \E locations \in Batches : DeliverBackground(locations)
    \/ DeliverBackgroundError
    \/ \E t \in Tracked, f \in Fixes : DeliverForeground(t, f)
    \/ \E i \in DOMAIN tasks : LogLocationOk(i)
    \/ \E i \in DOMAIN tasks : LogLocationError(i)
    \/ \E i \in DOMAIN tasks : GeofenceQueryOk(i)
    \/ \E i \in DOMAIN tasks : HazardCheckError(i)
    \/ \E i \in DOMAIN tasks : HazardCheckCompleted(i)

Spec == TrackInit /\ [][TrackNext]_vars

\* ------------------------------------------- two tourists on one device
\* startLocationTracking: the isTracking guard finds tracking active, logs
\* "Location tracking already active" and returns true.
StartCallAlreadyActive(t) ==
    /\ trackingState.isTracking
    /\ ~startReturns[t]
    /\ startReturns' = [startReturns EXCEPT ![t] = TRUE]
    /\ UNCHANGED <<trackingState, bgActive, fgSubs, starts, stopsInFlight, tasks,
                   location_logs>>
    /\ UNCHANGED <<scoreVars, alertVars, emergencyVars, clientVars>>

\* The fix the OS delivers in the two-tourist runs.
SwitchFixes == { f \in Fixes : f.timestamp = 1 /\ f.pos = "outside" }

\* LocationStatus is mounted for either tourist and toggles the one tracking
\* service of the process.
SwitchNext ==
    \/ \E t \in TouristIds : StartCall(t)
    \/ \E t \in TouristIds : StartCallAlreadyActive(t)
    \/ \E t \in TouristIds : StartBackgroundOk(t)
    \/ \E t \in TouristIds, pc \in StartPcs : StartCatch(t, pc)
    \/ \E t \in TouristIds : StartForegroundOk(t)
    \/ StopCall
    \/ StopOk
    \/ StopCatch
    \/ \E f \in SwitchFixes : DeliverBackground(<<f>>)
    \/ DeliverBackgroundError
    \/ \E t \in TouristIds, f \in SwitchFixes : DeliverForeground(t, f)
    \/ \E i \in DOMAIN tasks : LogLocationOk(i)
    \/ \E i \in DOMAIN tasks : LogLocationError(i)
    \/ \E i \in DOMAIN tasks : GeofenceQueryOk(i)
    \/ \E i \in DOMAIN tasks : HazardCheckError(i)
    \/ \E i \in DOMAIN tasks : HazardCheckCompleted(i)

SwitchSpec == TrackInit /\ [][SwitchNext]_vars

\* ------------------------------------------------- tracking restarted
\* One tourist's LocationStatus toggles tracking off and on again; the OS
\* keeps every subscription nobody removed.
WatcherNext ==
    \/ \E t \in Tracked : StartCall(t)
    \/ \E t \in Tracked : StartBackgroundOk(t)
    \/ \E t \in Tracked, pc \in StartPcs : StartCatch(t, pc)
    \/ \E t \in Tracked : StartForegroundWithin(t, MaxWatchers)
    \/ StopCall
    \/ StopOk
    \/ StopCatch
    \/ \E f \in SwitchFixes : DeliverBackground(<<f>>)
    \/ DeliverBackgroundError
    \/ \E t \in Tracked, f \in SwitchFixes : DeliverForeground(t, f)
    \/ \E i \in DOMAIN tasks : LogLocationOk(i)
    \/ \E i \in DOMAIN tasks : LogLocationError(i)
    \/ \E i \in DOMAIN tasks : GeofenceQueryOk(i)
    \/ \E i \in DOMAIN tasks : HazardCheckError(i)
    \/ \E i \in DOMAIN tasks : HazardCheckCompleted(i)

WatcherSpec == TrackInit /\ [][WatcherNext]_vars

\* ------------------------------------------------------------ registration
\* RegisterScreen.handleRegister after both validations passed and
\* getCurrentLocation (services/location.ts) settled with a position or null.
RegisterSubmit(pos) ==
    /\ nRegs < MaxRegs
    /\ nRegs' = nRegs + 1
    /\ regCalls' = regCalls \cup {[id |-> nRegs + 1, pos |-> pos, pc |-> "insert", tourist |-> NoTourist]}
    /\ UNCHANGED <<tourists, safetyScore>>
    /\ UNCHANGED <<trackVars, alertVars, emergencyVars, clientVars>>

\* A registration that stores a score outside the percent scale.
RegisteredScoreOffScale == InitialSafetyScore * 3

\* The row handleRegister inserts: touristData.safety_score.
RegisteredScore == InitialSafetyScore

\* insert into tourists resolves with the new row; with a position the initial
\* location is logged next, without one the call is over.
RegisterInsertOk(r, t) ==
    /\ r \in regCalls /\ r.pc = "insert"
    /\ tourists[t] = NotRegistered
    /\ tourists' = [tourists EXCEPT ![t] = RegisteredScore]
    /\ regCalls' = (regCalls \ {r}) \cup
                   (IF r.pos = "none" THEN {} ELSE {[r EXCEPT !.pc = "log", !.tourist = t]})
    /\ UNCHANGED <<safetyScore, nRegs>>
    /\ UNCHANGED <<trackVars, alertVars, emergencyVars, clientVars>>

\* insert into tourists returns an error: thrown, "Registration failed".
RegisterInsertError(r) ==
    /\ r \in regCalls /\ r.pc = "insert"
    /\ regCalls' = regCalls \ {r}
    /\ UNCHANGED <<tourists, safetyScore, nRegs>>
    /\ UNCHANGED <<trackVars, alertVars, emergencyVars, clientVars>>

\* insert into location_logs with timestamp new Date(): the result is not looked at.
RegisterLogLocation(r, now, ok) ==
    /\ r \in regCalls /\ r.pc = "log"
    /\ location_logs' = IF ok
                        THEN Append(location_logs,
                                    [tourist_id |-> r.tourist, timestamp |-> now, pos |-> r.pos])
                        ELSE location_logs
    /\ regCalls' = regCalls \ {r}
    /\ UNCHANGED <<trackingState, bgActive, fgSubs, starts, stopsInFlight, tasks, startReturns>>
    /\ UNCHANGED <<tourists, safetyScore, nRegs>>
    /\ UNCHANGED <<alertVars, emergencyVars, clientVars>>

RegNext ==
    \/ \E pos \in Positions \cup {"none"} : RegisterSubmit(pos)
    \/ \E r \in regCalls, t \in TouristIds : RegisterInsertOk(r, t)
    \/ \E r \in regCalls : RegisterInsertError(r)
    \/ \E r \in regCalls, now \in Times, ok \in BOOLEAN : RegisterLogLocation(r, now, ok)

RegSpec == Init /\ [][RegNext]_vars

\* ---------------------------------------------------------- notifications
Transitions == {"entered", "exited"}

\* createGeofenceAlert: the priority it passes to createSafetyAlert.
GeofencePriority(geofenceType) == IF geofenceType = "restricted" THEN "high" ELSE "normal"

\* updateNotificationStatus: update ... where id = notificationId. Row ids are
\* the positive indices of the table; an id that is no row id updates no row.
UpdateNotificationStatus(rows, notificationId, status) ==
    [i \in DOMAIN rows |-> IF i = notificationId THEN [rows[i] EXCEPT !.status = status]
                           ELSE rows[i]]

\* Notifications.scheduleNotificationAsync returns the scheduler's own
\* identifier, a string that is no row id of table notifications.
SchedulerIdentifier(call) == 0 - call.id

\* createGeofenceAlert(touristId, geofenceName, geofenceType, action): builds the
\* title, message and priority and enters createSafetyAlert, which awaits
\* getCurrentLocation first.
CreateGeofenceAlert(t, g, action) ==
    /\ nAlerts < MaxAlerts
    /\ nAlerts' = nAlerts + 1
    /\ alertCalls' = alertCalls \cup
           {[id |-> nAlerts + 1, pc |-> "location", row |-> 0,
             data |-> [tourist_id |-> t, type |-> "geofence",
                       priority |-> GeofencePriority(g.type), status |-> "pending",
                       geofenceName |-> g.name, geofenceType |-> g.type,
                       action |-> action, located |-> FALSE]]}
    /\ UNCHANGED <<notifications, nReads>>
    /\ UNCHANGED <<trackVars, scoreVars, emergencyVars, clientVars>>

\* services/location.ts getCurrentLocation resolves to a flat LocationData
\* {latitude, longitude, ...} or to null. Its callers read
\* location.coords.latitude: with a LocationData the coords member is
\* undefined and the read throws a TypeError; with null the callers do not
\* reach the read.
CoordsReadThrows(located) == located

\* createSafetyAlert: getCurrentLocation settled with a position or with null.
\* With a position the row under construction reads location.coords, which
\* throws; the catch logs and rethrows and nothing is inserted.
AlertLocation(c, located) ==
    /\ c \in alertCalls /\ c.pc = "location"
    /\ alertCalls' = IF CoordsReadThrows(located)
                      THEN alertCalls \ {c}
                      ELSE (alertCalls \ {c}) \cup {[c EXCEPT !.pc = "insert"]}
    /\ UNCHANGED <<notifications, nAlerts, nReads>>
    /\ UNCHANGED <<trackVars, scoreVars, emergencyVars, clientVars>>

\* createSafetyAlert: the insert returns the stored row; sendLocalNotification
\* is entered with its id and awaits the scheduler.
AlertInsertOk(c) ==
    /\ c \in alertCalls /\ c.pc = "insert"
    /\ notifications' = Append(notifications, c.data)
    /\ alertCalls' = (alertCalls \ {c}) \cup
                     {[c EXCEPT !.pc = "schedule", !.row = Len(notifications) + 1]}
    /\ UNCHANGED <<nAlerts, nReads>>
    /\ UNCHANGED <<trackVars, scoreVars, emergencyVars, clientVars>>

\* createSafetyAlert: the insert returns an error, which is thrown to the caller.
AlertInsertError(c) ==
    /\ c \in alertCalls /\ c.pc = "insert"
    /\ alertCalls' = alertCalls \ {c}
    /\ UNCHANGED <<notifications, nAlerts, nReads>>
    /\ UNCHANGED <<trackVars, scoreVars, emergencyVars, clientVars>>

\* sendLocalNotification: scheduled; updateNotificationStatus(notificationId,
\* "sent") with the scheduler's identifier is awaited next.
AlertScheduleOk(c) ==
    /\ c \in alertCalls /\ c.pc = "schedule"
    /\ alertCalls' = (alertCalls \ {c}) \cup {[c EXCEPT !.pc = "sent"]}
    /\ UNCHANGED <<notifications, nAlerts, nReads>>
    /\ UNCHANGED <<trackVars, scoreVars, emergencyVars, clientVars>>

\* sendLocalNotification: scheduling rejects; updateNotificationStatus(row id,
\* "failed") is awaited next.
AlertScheduleError(c) ==
    /\ c \in alertCalls /\ c.pc = "schedule"
    /\ alertCalls' = (alertCalls \ {c}) \cup {[c EXCEPT !.pc = "failed"]}
    /\ UNCHANGED <<notifications, nAlerts, nReads>>
    /\ UNCHANGED <<trackVars, scoreVars, emergencyVars, clientVars>>

\* The awaited updateNotificationStatus runs (or fails, which is only logged);
\* then the call returns the row, or rethrows after "failed".
AlertStatusUpdate(c, ok) ==
    /\ c \in alertCalls /\ c.pc \in {"sent", "failed"}
    /\ notifications' =
          IF ~ok THEN notifications
          ELSE IF c.pc = "sent"
               THEN UpdateNotificationStatus(notifications, SchedulerIdentifier(c), "sent")
               ELSE UpdateNotificationStatus(notifications, c.row, "failed")
    /\ alertCalls' = alertCalls \ {c}
    /\ UNCHANGED <<nAlerts, nReads>>
    /\ UNCHANGED <<trackVars, scoreVars, emergencyVars, clientVars>>

\* markNotificationAsRead(notificationId): the user opens the notification.
MarkNotificationAsRead(notificationId, ok) ==
    /\ nReads < MaxReads
    /\ nReads' = nReads + 1
    /\ notificationId \in DOMAIN notifications
    /\ notifications' = IF ok THEN UpdateNotificationStatus(notifications, notificationId, "read")
                        ELSE notifications
    /\ UNCHANGED <<alertCalls, nAlerts>>
    /\ UNCHANGED <<trackVars, scoreVars, emergencyVars, clientVars>>

AlertNext ==
    \/ \E t \in TouristIds, g \in Geofences, action \in Transitions : CreateGeofenceAlert(t, g, action)
    \/ \E c \in alertCalls, located \in BOOLEAN : AlertLocation(c, located)
    \/ \E c \in alertCalls : AlertInsertOk(c)
    \/ \E c \in alertCalls : AlertInsertError(c)
    \/ \E c \in alertCalls : AlertScheduleOk(c)
    \/ \E c \in alertCalls : AlertScheduleError(c)
    \/ \E c \in alertCalls, ok \in BOOLEAN : AlertStatusUpdate(c, ok)
    \/ \E n \in DOMAIN notifications, ok \in BOOLEAN : MarkNotificationAsRead(n, ok)

AlertSpec == Init /\ [][AlertNext]_vars

\* ------------------------------------------------------------------ helpers
InFlight(task) == task.pc # "done"
Delivered == DOMAIN tasks' \ DOMAIN tasks        \* handler invocations begun by a step

\* A notification row raised for a zone transition that nobody has dealt with yet.
Unresolved(row) == row.status \in {"pending", "sent"}
SameDedupKey(r1, r2) ==
    /\ r1.tourist_id = r2.tourist_id
    /\ r1.geofenceName = r2.geofenceName
    /\ r1.action = r2.action

\* No zone set is kept anywhere: checkForHazards fetches the geofence rows,
\* intersects nothing and stores nothing, so the membership a reader of the
\* tracking state can observe for a tourist is always empty.
MembershipState(t) == {}

\* Both handlers await logLocationToDatabase and checkForHazards, which catch
\* every error and resolve with undefined: no handler invocation ever rejects
\* or returns a value to whoever delivered the fix.
HandlerRejects(task) == FALSE

ZoneNames(zs) == { z.name : z \in zs }

\* No zone transition is computed or written anywhere: checkForHazards leaves
\* the intersection unimplemented, so the set of recorded transitions
\* <<tourist, zone, direction>> is always empty.
TransitionEvents == {}

\* ------------------------------------------------------------------ claims

\* C1: at most one unresolved alert exists per (tourist, zone, transition-type):
\* a second alert with the same key is suppressed while the first is unresolved.
C1_OneActiveAlertPerKey ==
    \A i, j \in DOMAIN notifications :
        (i # j /\ SameDedupKey(notifications[i], notifications[j]))
            => ~(Unresolved(notifications[i]) /\ Unresolved(notifications[j]))

\* C2: once a fix with a later timestamp has been processed for a tourist, an
\* earlier-stamped fix delivered afterwards is rejected: it does not enter
\* processing and the tracking state (last location) is left as it was.
C2_StaleFixRejected ==
    [][ \A j \in Delivered :
          ( /\ \A i \in DOMAIN tasks : ~InFlight(tasks[i])
            /\ \E a \in DOMAIN location_logs :
                  /\ location_logs[a].tourist_id = tasks'[j].touristId
                  /\ location_logs[a].timestamp > tasks'[j].fix.timestamp )
          => (tasks'[j].pc = "done" /\ trackingState' = trackingState) ]_vars

\* C3: fixes of one tourist are processed strictly one after another: at no
\* time are two fix handlers in progress, and stored rows follow timestamp order.
C3_OneFixAtATime ==
    /\ Cardinality({ i \in DOMAIN tasks : InFlight(tasks[i]) }) <= 1
    /\ \A a, b \in DOMAIN location_logs :
          (a < b /\ location_logs[a].tourist_id = location_logs[b].tourist_id)
              => location_logs[a].timestamp <= location_logs[b].timestamp

\* C4: when the processing of a fix completes, the tourist's MembershipState is
\* exactly the set of zones whose geometry contains that fix.
C4_MembershipReflectsLastFix ==
    [][ \A i \in DOMAIN tasks :
          (tasks[i].pc = "hazards" /\ tasks'[i].pc = "done" /\ tasks'[i].checked)
          => MembershipState(tasks[i].touristId)
                 = ZoneNames(ZonesContaining(tasks[i].fix.pos)) ]_vars

\* C5: every safety score, the stored one of each registered tourist and the
\* one HomeScreen shows, is an integer in [0,100].
C5_ScoreInRange ==
    /\ safetyScore \in 0..100
    /\ \A t \in TouristIds : tourists[t] # NotRegistered => tourists[t] \in 0..100

C5_Witness == \E t \in TouristIds : tourists[t] # NotRegistered

\* C7: every entry into a restricted or danger zone has produced an alert by
\* the time the fix is processed, and an entry into a safe zone produces none.
EnteredZone(i, z) ==
    /\ Contains(z, tasks[i].fix.pos)
    /\ \A h \in 1..(i - 1) : tasks[h].fix = NoFix \/ ~Contains(z, tasks[h].fix.pos)
AlertFor(t, z, action) ==
    \E n \in DOMAIN notifications :
        /\ notifications[n].tourist_id = t
        /\ notifications[n].geofenceName = z.name
        /\ notifications[n].action = action
C7_EntryAlerts ==
    \A i \in DOMAIN tasks : \A z \in Geofences :
        (tasks[i].checked /\ tasks[i].fix # NoFix /\ EnteredZone(i, z))
        => /\ z.type \in {"restricted", "danger"} => AlertFor(tasks[i].touristId, z, "entered")
           /\ z.type = "safe" => ~AlertFor(tasks[i].touristId, z, "entered")

\* C8: a fix submitted twice is stored once: the second submission adds no row.
C8_DuplicateFixIsNoOp ==
    \A a, b \in DOMAIN location_logs : a # b => location_logs[a] # location_logs[b]

\* C9: once stopLocationTracking has completed (tracking state reset, no start
\* or stop call pending), no delivered fix enters processing any more.
Stopped ==
    /\ ~trackingState.isTracking
    /\ trackingState.touristId = NoTourist
    /\ InFlightStarts = 0
    /\ stopsInFlight = 0
C9_NoFixAfterStop ==
    [][ Stopped => \A j \in Delivered : tasks'[j].pc = "done" ]_vars

\* C10: every fix whose handler has finished was answered: it was stored
\* (acknowledged) or its handler rejected towards whoever delivered the fix.
C10_EveryFixAnswered ==
    \A i \in DOMAIN tasks :
        (tasks[i].pc = "done" /\ tasks[i].fix # NoFix)
            => (tasks[i].stored \/ HandlerRejects(tasks[i]))

\* ---------------------------------------------------- services/emergency
\* EmergencyAlert["type"], the argument of the four emergency buttons
EmergencyTypes == {"panic", "medical", "security", "natural_disaster"}

NewPanicCall(t, alertType) ==
    [tourist_id |-> t, type |-> alertType, pc |-> "screenLocation",
     location |-> "pending", told |-> "none"]

\* EmergencyScreen.sendEmergencyAlert / HomeScreen.handleEmergency, up to the
\* screen's own await of getCurrentLocation.
SendEmergencyAlert(t, alertType) ==
    /\ Len(panicCalls) < MaxPanics
    /\ panicCalls' = Append(panicCalls, NewPanicCall(t, alertType))
    /\ UNCHANGED <<alerts, communications, dbNow, system_settings>>
    /\ UNCHANGED <<trackVars, scoreVars, alertVars, clientVars>>

\* The screen's getCurrentLocation settled. With null the user is told
\* "Unable to get your location" and the handler returns; otherwise
\* triggerPanicAlert is entered and awaits getCurrentLocation itself.
ScreenLocation(i, located) ==
    /\ i \in DOMAIN panicCalls /\ panicCalls[i].pc = "screenLocation"
    /\ panicCalls' = [panicCalls EXCEPT ![i] =
           IF located
           THEN [@ EXCEPT !.pc = "triggerLocation"]
           ELSE [@ EXCEPT !.pc = "done", !.location = "null", !.told = "noLocation"]]
    /\ UNCHANGED <<alerts, communications, dbNow, system_settings>>
    /\ UNCHANGED <<trackVars, scoreVars, alertVars, clientVars>>

\* A triggerPanicAlert that goes on to the insert when it has no location.
PanicLocationOutcomeUnchecked(located) ==
    IF ~located THEN "insert"
    ELSE IF CoordsReadThrows(located) THEN "typeError"
    ELSE "insert"

\* triggerPanicAlert after its getCurrentLocation settled: null throws
\* "Unable to get current location"; otherwise the alert under construction
\* reads location.coords.latitude; only past that read is the row inserted.
PanicLocationOutcome(located) ==
    IF ~located THEN "unable"
    ELSE IF CoordsReadThrows(located) THEN "typeError"
    ELSE "insert"

\* The row triggerPanicAlert hands to the insert into alerts.
EmergencyAlertRow(call, located) ==
    [tourist_id |-> call.tourist_id, alert_type |-> call.type, status |-> "active",
     created_at |-> dbNow, resolved_at |-> NullTime, located |-> located,
     notification_sent |-> FALSE]

\* triggerPanicAlert's getCurrentLocation settled. A throw is logged and
\* rethrown by triggerPanicAlert's catch and ends in the screen's catch, which
\* tells the user "Failed to send emergency alert".
PanicLocation(i, located) ==
    /\ i \in DOMAIN panicCalls /\ panicCalls[i].pc = "triggerLocation"
    /\ IF PanicLocationOutcome(located) = "insert"
       THEN /\ alerts' = Append(alerts, EmergencyAlertRow(panicCalls[i], located))
            /\ panicCalls' = [panicCalls EXCEPT ![i].pc = "tourist",
                                  ![i].location = IF located THEN "position" ELSE "null"]
       ELSE /\ alerts' = alerts
            /\ panicCalls' = [panicCalls EXCEPT ![i].pc = "done", ![i].told = "failed",
                                  ![i].location = IF located THEN "position" ELSE "null"]
    /\ UNCHANGED <<communications, dbNow, system_settings>>
    /\ UNCHANGED <<trackVars, scoreVars, alertVars, clientVars>>

PanicNext ==
    \/ \E t \in TouristIds, alertType \in EmergencyTypes : SendEmergencyAlert(t, alertType)
    \/ \E i \in DOMAIN panicCalls, located \in BOOLEAN : ScreenLocation(i, located)
    \/ \E i \in DOMAIN panicCalls, located \in BOOLEAN : PanicLocation(i, located)

PanicSpec == Init /\ [][PanicNext]_vars

\* ------------------------------------------------ auto_resolve_old_alerts
\* INTERVAL '24 hours'
AutoResolveInterval == 24

\* The clock of the runs advances in half intervals, so that a row is seen
\* younger than, exactly as old as, and older than the interval.
ClockStep == AutoResolveInterval \div 2

\* alerts.alert_type: 1=Panic, 2=Geofence, 3=Anomaly, 4=Weather, 5=Medical, 6=Missing
AlertTypeCodes == 1..6

\* Rows the back end has stored in alerts before the function runs.
AlertRows ==
    [tourist_id : Tracked, alert_type : AlertTypeCodes,
     status : {"active", "acknowledged", "resolved"},
     created_at : {0, ClockStep}, resolved_at : {NullTime}, located : {TRUE},
     notification_sent : {FALSE}]                \* notification_sent IS NULL

AlertTables == UNION { [1..n -> AlertRows] : n \in 0..MaxAlertRows }

ResolveInit ==
    /\ TrackingIdle
    /\ AlertsIdle
    /\ ClientIdle
    /\ ClientIdle
    /\ tourists = [t \in TouristIds |-> IF t \in Tracked THEN InitialSafetyScore
                                                      ELSE NotRegistered]
    /\ regCalls = {}
    /\ nRegs = 0
    /\ safetyScore = HomeInitialSafetyScore
    /\ alerts \in AlertTables
    /\ communications = <<>>
    /\ panicCalls = <<>>
    /\ dbNow = ClockStep
    /\ system_settings = [k \in {"tourist_safety_score_weights"} |-> SafetyScoreWeights]

\* Time passes on the database server.
ClockTick ==
    /\ dbNow < MaxClock * ClockStep
    /\ dbNow' = dbNow + ClockStep
    /\ UNCHANGED <<alerts, communications, panicCalls, system_settings>>
    /\ UNCHANGED <<trackVars, scoreVars, alertVars, clientVars>>

\* A WHERE clause without the alert_type condition.
AutoResolvableAnyType(row, t) ==
    /\ row.status = "active"
    /\ row.created_at < t - AutoResolveInterval

\* The WHERE clause of auto_resolve_old_alerts, evaluated at NOW() = t.
AutoResolvable(row, t) ==
    /\ row.status = "active"
    /\ row.alert_type \in {2, 3, 4}
    /\ row.created_at < t - AutoResolveInterval

\* auto_resolve_old_alerts(): the UPDATE over table alerts.
AutoResolveOldAlerts ==
    /\ alerts' = [i \in DOMAIN alerts |->
                    IF AutoResolvable(alerts[i], dbNow)
                    THEN [alerts[i] EXCEPT !.status = "auto_resolved", !.resolved_at = dbNow]
                    ELSE alerts[i]]
    /\ UNCHANGED <<communications, panicCalls, dbNow, system_settings>>
    /\ UNCHANGED <<trackVars, scoreVars, alertVars, clientVars>>

ResolveNext ==
    \/ ClockTick
    \/ AutoResolveOldAlerts

ResolveSpec == ResolveInit /\ [][ResolveNext]_vars

\* ------------------------------------------- alert status updates (client)
\* update alerts set ... where id = alertId. Row ids are the positive indices
\* of the table; an id that is no row id updates no row.
SetAlertStatus(rows, alertId, status) ==
    [i \in DOMAIN rows |-> IF i = alertId THEN [rows[i] EXCEPT !.status = status]
                           ELSE rows[i]]

\* resolveEmergencyAlert(alertId): the update sets status and resolved_at
\* whatever the row's status is; an error is logged and false returned.
ResolveEmergencyAlert(alertId, ok) ==
    /\ alerts' = IF ok
                 THEN [i \in DOMAIN alerts |->
                          IF i = alertId
                          THEN [alerts[i] EXCEPT !.status = "resolved", !.resolved_at = dbNow]
                          ELSE alerts[i]]
                 ELSE alerts
    /\ UNCHANGED <<communications, panicCalls, dbNow, system_settings>>
    /\ UNCHANGED <<trackVars, scoreVars, alertVars, clientVars>>

\* acknowledgeEmergencyAlert(alertId): the update sets status only.
AcknowledgeEmergencyAlert(alertId, ok) ==
    /\ alerts' = IF ok THEN SetAlertStatus(alerts, alertId, "acknowledged") ELSE alerts
    /\ UNCHANGED <<communications, panicCalls, dbNow, system_settings>>
    /\ UNCHANGED <<trackVars, scoreVars, alertVars, clientVars>>

\* handleNotificationResponse, action "acknowledge": acknowledgeAlert with the
\* alertId of the notification's data (0: the data holds none).
AcknowledgeAlert(alertId, ok) ==
    /\ alerts' = IF ok THEN SetAlertStatus(alerts, alertId, "acknowledged") ELSE alerts
    /\ UNCHANGED <<communications, panicCalls, dbNow, system_settings>>
    /\ UNCHANGED <<trackVars, scoreVars, alertVars, clientVars>>

StatusNext ==
    \/ \E a \in DOMAIN alerts, ok \in BOOLEAN : ResolveEmergencyAlert(a, ok)
    \/ \E a \in DOMAIN alerts, ok \in BOOLEAN : AcknowledgeEmergencyAlert(a, ok)
    \/ \E a \in {0} \cup DOMAIN alerts, ok \in BOOLEAN : AcknowledgeAlert(a, ok)

StatusSpec == ResolveInit /\ [][StatusNext]_vars

\* ------------------------------------------- notification delivery
\* The client state the notification service leaves alone here.
othersThanScheduled ==
    <<notifyRuns, locationSubscription, watchers, pendingWatches, nWatchCalls, stopIsLastCall>>

\* sendLocalNotification: scheduleNotificationAsync resolved with the
\* scheduler's identifier; the OS now holds the notification and
\* updateNotificationStatus(notificationId, "sent") is awaited next.
DeliveryScheduleOk(c) ==
    /\ c \in alertCalls /\ c.pc = "schedule"
    /\ alertCalls' = (alertCalls \ {c}) \cup {[c EXCEPT !.pc = "sent"]}
    /\ scheduled' = scheduled \cup
           {[identifier |-> SchedulerIdentifier(c), row |-> c.row, received |-> FALSE]}
    /\ UNCHANGED <<notifications, nAlerts, nReads>>
    /\ UNCHANGED <<trackVars, scoreVars, emergencyVars, othersThanScheduled>>

\* setupNotificationListeners: the received listener runs for a scheduled
\* notification and calls updateNotificationStatus(request.identifier, "read");
\* a failure of the update is only logged.
NotificationReceived(n, ok) ==
    /\ n \in scheduled /\ ~n.received
    /\ scheduled' = (scheduled \ {n}) \cup {[n EXCEPT !.received = TRUE]}
    /\ notifications' = IF ok THEN UpdateNotificationStatus(notifications, n.identifier, "read")
                        ELSE notifications
    /\ UNCHANGED <<alertCalls, nAlerts, nReads>>
    /\ UNCHANGED <<trackVars, scoreVars, emergencyVars, othersThanScheduled>>

DeliveryNext ==
    \/ \E t \in Tracked, g \in Geofences, action \in Transitions : CreateGeofenceAlert(t, g, action)
    \/ \E c \in alertCalls, located \in BOOLEAN : AlertLocation(c, located)
    \/ \E c \in alertCalls : AlertInsertOk(c)
    \/ \E c \in alertCalls : AlertInsertError(c)
    \/ \E c \in alertCalls : DeliveryScheduleOk(c)
    \/ \E c \in alertCalls : AlertScheduleError(c)
    \/ \E c \in alertCalls, ok \in BOOLEAN : AlertStatusUpdate(c, ok)
    \/ \E n \in scheduled, ok \in BOOLEAN : NotificationReceived(n, ok)
    \/ \E n \in DOMAIN notifications, ok \in BOOLEAN : MarkNotificationAsRead(n, ok)

DeliverySpec == Init /\ [][DeliveryNext]_vars

\* ------------------------------------------------- services/location.ts
\* The other users of the module state (the other services, the database
\* tables they write) stay idle; location_logs is shared.
othersThanLocation ==
    <<trackingState, bgActive, fgSubs, starts, stopsInFlight, tasks, startReturns,
      scoreVars, alertVars, emergencyVars, notifyRuns, scheduled>>

\* startLocationTracking(touristId): up to the await of watchPositionAsync.
LocStartCall(t) ==
    /\ nWatchCalls < MaxWatchCalls
    /\ nWatchCalls' = nWatchCalls + 1
    /\ pendingWatches' = pendingWatches \cup {[id |-> nWatchCalls + 1, touristId |-> t]}
    /\ stopIsLastCall' = FALSE
    /\ UNCHANGED <<locationSubscription, watchers, location_logs, othersThanLocation>>

\* watchPositionAsync resolved: the subscription is active and is assigned to
\* locationSubscription, whatever that held before.
LocStartResolved(c) ==
    /\ c \in pendingWatches
    /\ pendingWatches' = pendingWatches \ {c}
    /\ watchers' = watchers \cup {c}
    /\ locationSubscription' = c.id
    /\ UNCHANGED <<nWatchCalls, stopIsLastCall, location_logs, othersThanLocation>>

\* watchPositionAsync rejected: the catch logs the error.
LocStartRejected(c) ==
    /\ c \in pendingWatches
    /\ pendingWatches' = pendingWatches \ {c}
    /\ UNCHANGED <<locationSubscription, watchers, nWatchCalls, stopIsLastCall,
                   location_logs, othersThanLocation>>

\* stopLocationTracking(): removes the subscription locationSubscription
\* holds, if any, and returns.
LocStop ==
    /\ watchers' = { w \in watchers : w.id # locationSubscription }
    /\ locationSubscription' = 0
    /\ stopIsLastCall' = TRUE
    /\ UNCHANGED <<pendingWatches, nWatchCalls, location_logs, othersThanLocation>>

\* An active watcher's callback: logLocation(touristId, ...) inserts a row
\* stamped with the current time; an insert error is logged.
LocCallback(w, pos, now, ok) ==
    /\ w \in watchers
    /\ Len(location_logs) < MaxFixes
    /\ location_logs' =
          IF ok THEN Append(location_logs,
                            LocationRow(w.touristId, [timestamp |-> now, pos |-> pos]))
          ELSE location_logs
    /\ UNCHANGED <<clientVars, othersThanLocation>>

LocationNext ==
    \/ \E t \in TouristIds : LocStartCall(t)
    \/ \E c \in pendingWatches : LocStartResolved(c)
    \/ \E c \in pendingWatches : LocStartRejected(c)
    \/ LocStop
    \/ \E w \in watchers, pos \in Positions, now \in Times, ok \in BOOLEAN :
           LocCallback(w, pos, now, ok)

LocationSpec == Init /\ [][LocationNext]_vars

\* ------------------------------------------ processBackgroundNotifications
\* Rows of alerts the back end has stored for the tourist of this device.
BackgroundAlertRows ==
    [tourist_id : Tracked, alert_type : {2}, status : {"active", "resolved"},
     severity : {"critical", "medium"}, created_at : {0}, resolved_at : {NullTime},
     located : {TRUE}, notification_sent : BOOLEAN]

BackgroundInit ==
    /\ TrackingIdle
    /\ AlertsIdle
    /\ ClientIdle
    /\ tourists = [t \in TouristIds |-> IF t \in Tracked THEN InitialSafetyScore
                                                      ELSE NotRegistered]
    /\ regCalls = {}
    /\ nRegs = 0
    /\ safetyScore = HomeInitialSafetyScore
    /\ alerts \in UNION { [1..n -> BackgroundAlertRows] : n \in 1..MaxAlertRows }
    /\ communications = <<>>
    /\ panicCalls = <<>>
    /\ dbNow = 0
    /\ system_settings = [k \in {"tourist_safety_score_weights"} |-> SafetyScoreWeights]

\* The ids the select returns, in table order: the tourist's alerts with
\* status active and notification_sent null.
RECURSIVE SelectUnsent(_, _, _)
SelectUnsent(rows, t, from) ==
    IF from > Len(rows) THEN <<>>
    ELSE IF /\ rows[from].tourist_id = t
            /\ rows[from].status = "active"
            /\ ~rows[from].notification_sent
         THEN <<from>> \o SelectUnsent(rows, t, from + 1)
         ELSE SelectUnsent(rows, t, from + 1)

\* The priority processBackgroundNotifications passes to createSafetyAlert.
BackgroundPriority(severity) == IF severity = "critical" THEN "critical" ELSE "high"

\* The row createSafetyAlert builds for alert a (getCurrentLocation was null).
BackgroundNotificationRow(t, a) ==
    [tourist_id |-> t, type |-> alerts[a].alert_type,
     priority |-> BackgroundPriority(alerts[a].severity), status |-> "pending",
     alertId |-> a, located |-> FALSE]

\* After a loop iteration or a select: the next alert's createSafetyAlert is
\* entered and awaits getCurrentLocation, or the loop is over.
ContinueRun(run, todo) ==
    [run EXCEPT !.todo = todo, !.row = 0,
                !.pc = IF todo = <<>> THEN "done" ELSE "location"]

\* processBackgroundNotifications(touristId): the select of the alerts that
\* need a notification; with an error the run logs it and returns.
ProcessBackgroundNotifications(t, ok) ==
    /\ Len(notifyRuns) < MaxRuns
    /\ notifyRuns' = Append(notifyRuns,
           ContinueRun([tourist |-> t, todo |-> <<>>, row |-> 0, pc |-> "done"],
                       IF ok THEN SelectUnsent(alerts, t, 1) ELSE <<>>))
    /\ UNCHANGED <<locationSubscription, watchers, pendingWatches, nWatchCalls, stopIsLastCall,
                   scheduled>>
    /\ UNCHANGED <<trackVars, scoreVars, alertVars, emergencyVars>>

\* createSafetyAlert: getCurrentLocation settled. With a position the read of
\* location.coords throws; the throw leaves the loop and ends the run in
\* processBackgroundNotifications' catch.
RunLocation(r, located) ==
    /\ r \in DOMAIN notifyRuns /\ notifyRuns[r].pc = "location"
    /\ notifyRuns' = [notifyRuns EXCEPT ![r].pc =
                         IF CoordsReadThrows(located) THEN "done" ELSE "insert"]
    /\ UNCHANGED <<locationSubscription, watchers, pendingWatches, nWatchCalls, stopIsLastCall,
                   scheduled>>
    /\ UNCHANGED <<trackVars, scoreVars, alertVars, emergencyVars>>

\* createSafetyAlert: the insert into notifications; an error is thrown and
\* ends the run.
RunInsert(r, ok) ==
    /\ r \in DOMAIN notifyRuns /\ notifyRuns[r].pc = "insert"
    /\ IF ok
       THEN /\ notifications' = Append(notifications,
                   BackgroundNotificationRow(notifyRuns[r].tourist, notifyRuns[r].todo[1]))
            /\ notifyRuns' = [notifyRuns EXCEPT ![r].pc = "schedule",
                                                ![r].row = Len(notifications) + 1]
       ELSE /\ notifications' = notifications
            /\ notifyRuns' = [notifyRuns EXCEPT ![r].pc = "done"]
    /\ UNCHANGED <<alertCalls, nAlerts, nReads>>
    /\ UNCHANGED <<locationSubscription, watchers, pendingWatches, nWatchCalls, stopIsLastCall,
                   scheduled>>
    /\ UNCHANGED <<trackVars, scoreVars, emergencyVars>>

\* sendLocalNotification: scheduleNotificationAsync settled; the awaited
\* updateNotificationStatus comes next.
RunSchedule(r, ok) ==
    /\ r \in DOMAIN notifyRuns /\ notifyRuns[r].pc = "schedule"
    /\ notifyRuns' = [notifyRuns EXCEPT ![r].pc = IF ok THEN "sent" ELSE "failed"]
    /\ UNCHANGED <<locationSubscription, watchers, pendingWatches, nWatchCalls, stopIsLastCall,
                   scheduled>>
    /\ UNCHANGED <<trackVars, scoreVars, alertVars, emergencyVars>>

\* sendLocalNotification: updateNotificationStatus ran (its own failure is
\* only logged). After "sent", whose id is the scheduler's identifier and
\* matches no row, createSafetyAlert returns and the alert is marked next;
\* after "failed" the error is rethrown and ends the run.
RunStatusUpdate(r, ok) ==
    /\ r \in DOMAIN notifyRuns /\ notifyRuns[r].pc \in {"sent", "failed"}
    /\ notifications' =
          IF ok /\ notifyRuns[r].pc = "failed"
          THEN UpdateNotificationStatus(notifications, notifyRuns[r].row, "failed")
          ELSE notifications
    /\ notifyRuns' = [notifyRuns EXCEPT ![r].pc = IF notifyRuns[r].pc = "sent" THEN "mark"
                                                  ELSE "done"]
    /\ UNCHANGED <<alertCalls, nAlerts, nReads>>
    /\ UNCHANGED <<locationSubscription, watchers, pendingWatches, nWatchCalls, stopIsLastCall,
                   scheduled>>
    /\ UNCHANGED <<trackVars, scoreVars, emergencyVars>>

\* update alerts set notification_sent = true where id = alert.id; the result
\* is not looked at. Then the next alert of the selected list.
RunMark(r, ok) ==
    /\ r \in DOMAIN notifyRuns /\ notifyRuns[r].pc = "mark"
    /\ alerts' = IF ok THEN [alerts EXCEPT ![notifyRuns[r].todo[1]].notification_sent = TRUE]
                 ELSE alerts
    /\ notifyRuns' = [notifyRuns EXCEPT ![r] = ContinueRun(@, Tail(@.todo))]
    /\ UNCHANGED <<communications, panicCalls, dbNow, system_settings>>
    /\ UNCHANGED <<locationSubscription, watchers, pendingWatches, nWatchCalls, stopIsLastCall,
                   scheduled>>
    /\ UNCHANGED <<trackVars, scoreVars, alertVars>>

BackgroundNext ==
    \/ \E t \in Tracked, ok \in BOOLEAN : ProcessBackgroundNotifications(t, ok)
    \/ \E r \in DOMAIN notifyRuns, located \in BOOLEAN : RunLocation(r, located)
    \/ \E r \in DOMAIN notifyRuns, ok \in BOOLEAN : RunInsert(r, ok)
    \/ \E r \in DOMAIN notifyRuns, ok \in BOOLEAN : RunSchedule(r, ok)
    \/ \E r \in DOMAIN notifyRuns, ok \in BOOLEAN : RunStatusUpdate(r, ok)
    \/ \E r \in DOMAIN notifyRuns, ok \in BOOLEAN : RunMark(r, ok)

BackgroundSpec == BackgroundInit /\ [][BackgroundNext]_vars

\* ---------------------------------------------------------------- C11
\* The step in which handler i meets a failure: the insert of its fix did
\* not store a row, or its hazard check ended without completing.
FailureStep(i) ==
    \/ tasks[i].pc = "log" /\ tasks'[i].pc # "log" /\ ~tasks'[i].stored
    \/ tasks[i].pc \in {"geofences", "hazards"} /\ tasks'[i].pc = "done" /\ ~tasks'[i].checked

\* C11: a failure while storing a fix or while checking geofences and hazards
\* for it is logged and stays inside the handler: the handler goes on to its
\* next step or returns, the tracking state, the background registration and
\* the subscriptions (which decide whether later fixes are delivered and
\* processed) are unchanged, and no other handler and no stored row is touched.
C11_FailureContained ==
    [][\A i \in DOMAIN tasks :
          FailureStep(i) =>
              /\ tasks'[i].logged
              /\ tasks'[i].pc \in {"geofences", "done"}
              /\ DOMAIN tasks' = DOMAIN tasks
              /\ \A j \in DOMAIN tasks : j # i => tasks'[j] = tasks[j]
              /\ UNCHANGED <<trackingState, bgActive, fgSubs, starts, stopsInFlight,
                             location_logs>>]_vars

\* A handler ended after a logged failure and a later fix of the tourist was
\* stored and checked.
C11_Witness ==
    \E i \in DOMAIN tasks, j \in DOMAIN tasks :
        /\ i < j
        /\ tasks[i].fix # NoFix /\ tasks[i].pc = "done"
        /\ tasks[i].logged /\ ~tasks[i].checked
        /\ tasks[j].touristId = tasks[i].touristId
        /\ tasks[j].stored /\ tasks[j].checked

\* ---------------------------------------------------------------- C12
\* No emergency button press ends with "Emergency Alert Sent": every
\* triggerPanicAlert call throws before its insert.
PanicNeverReportedSent ==
    /\ \A i \in DOMAIN panicCalls : panicCalls[i].told # "sent"
    /\ alerts = <<>>

SeverityForRisk(level) ==
    CASE level = 5 -> "critical"
      [] level = 4 -> "high"
      [] level = 3 -> "medium"
      [] OTHER -> "none"

\* C14: the severity of an alert raised for a zone is determined by the zone's
\* risk level alone (5 critical, 4 high, 3 medium), and a zone of risk level 2
\* or below produces no alert.
C14_SeverityFromRiskLevel ==
    \A n \in DOMAIN notifications : \A z \in Geofences :
        (notifications[n].type = "geofence" /\ notifications[n].geofenceName = z.name)
            => /\ SeverityForRisk(z.risk_level) # "none"
               /\ notifications[n].priority = SeverityForRisk(z.risk_level)

\* ---------------------------------------------------------------- C15
\* Fix i lay inside zone z and the next fix of the same tourist, j, outside
\* it, and the hazard check of both completed.
ExitedZone(i, j, z) ==
    /\ j = i + 1
    /\ tasks[i].checked /\ tasks[j].checked
    /\ tasks[i].touristId = tasks[j].touristId
    /\ Contains(z, tasks[i].fix.pos) /\ ~Contains(z, tasks[j].fix.pos)

\* C15: when a tourist exits a zone of risk level 2 and category tourist_zone,
\* an "exited" transition is recorded and no alert or notification is created
\* for it.
C15_QuietExitRecorded ==
    \A i \in DOMAIN tasks, j \in DOMAIN tasks : \A z \in Geofences :
        (z.risk_level = 2 /\ z.type = "tourist_zone" /\ ExitedZone(i, j, z))
            => /\ <<tasks[j].touristId, z.name, "exited">> \in TransitionEvents
               /\ ~AlertFor(tasks[j].touristId, z, "exited")

\* ---------------------------------------------------------------- C16
\* C16: tracking state is held per tourist: once startLocationTracking(B) has
\* reported success (and tracking was not stopped since), every fix that is
\* stored is recorded under B, even if tourist A was being tracked before.
C16_FixesRecordedUnderStarted ==
    [][\A B \in TouristIds :
          (startReturns[B] /\ Len(location_logs') > Len(location_logs))
              => location_logs'[Len(location_logs')].tourist_id = B]_vars

\* ---------------------------------------------------------------- C17
\* C17: every alert record the application emits has a type among geofence,
\* hazard, weather, anomaly, panic, medical and a severity among low, medium,
\* high, critical.
C17_AlertEnums ==
    \A n \in DOMAIN notifications :
        /\ notifications[n].type \in {"geofence", "hazard", "weather", "anomaly",
                                      "panic", "medical"}
        /\ notifications[n].priority \in {"low", "medium", "high", "critical"}

\* ---------------------------------------------------------------- C18
\* C18: a fix whose zone data could not be obtained is not dropped: no fix
\* handler has ended for good without its hazard check performed.
C18_FailedCheckRetried ==
    \A i \in DOMAIN tasks :
        (tasks[i].pc = "done" /\ tasks[i].fix # NoFix /\ (tasks[i].stored \/ tasks[i].logged))
            => tasks[i].checked

\* ---------------------------------------------------------------- C19
\* C19: auto_resolve_old_alerts changes only rows that are still active, of a
\* non-critical type (2 geofence, 3 anomaly, 4 weather) and older than 24
\* hours; every panic, medical and missing-person alert, every acknowledged
\* or resolved alert and every alert not older than 24 hours stays as it was.
C19_AutoResolveOnlyOldNonCritical ==
    [][/\ DOMAIN alerts' = DOMAIN alerts
       /\ \A i \in DOMAIN alerts :
            alerts'[i] # alerts[i] =>
                /\ alerts[i].status = "active"
                /\ alerts[i].alert_type \in {2, 3, 4}
                /\ dbNow - alerts[i].created_at > 24]_vars

\* The function has resolved one row while a panic, medical or missing-person
\* alert that was just as old, or an old acknowledged one, is still as stored.
C19_Witness ==
    \E i \in DOMAIN alerts, j \in DOMAIN alerts :
        /\ alerts[i].status = "auto_resolved"
        /\ alerts[i].resolved_at - alerts[j].created_at > 24
        /\ alerts[j].status \in {"active", "acknowledged"}
        /\ alerts[j].status = "active" => alerts[j].alert_type \in {1, 5, 6}

\* ---------------------------------------------------------------- C20
\* C20: the configured safety-score weights sum to exactly 1.0 (100 hundredths).
C20_WeightsSumToOne ==
    LET w == system_settings["tourist_safety_score_weights"]
    IN  Total(w, DOMAIN w) = 100

\* The settings table holds the weights row with its five weights.
C20_Witness ==
    /\ "tourist_safety_score_weights" \in DOMAIN system_settings
    /\ DOMAIN system_settings["tourist_safety_score_weights"] =
           {"location_risk", "weather", "group_size", "time_of_day", "route_deviation"}
    /\ dbNow > ClockStep            \* read while the database is in service

\* ---------------------------------------------------------------- C21
\* C21: for every sequence and interleaving of startLocationTracking and
\* stopLocationTracking calls at most one foreground position watcher is
\* active at any time (the background registration is one per task name).
C21_OneWatcher == ActiveSubs <= 1

\* ---------------------------------------------------------------- C22
\* The step in which a startLocationTracking call returns false: a pending
\* call ends without a watcher having been added.
StartReturnedFalse ==
    /\ InFlightStarts' < InFlightStarts
    /\ fgSubs' = fgSubs

\* C22: when startLocationTracking returns false the system is back in the
\* not-tracking state: isTracking is false, touristId is null and no
\* background or foreground location updates are running.
C22_FailedStartResets ==
    [][StartReturnedFalse =>
          /\ ~trackingState'.isTracking
          /\ trackingState'.touristId = NoTourist
          /\ ~bgActive'
          /\ \A t \in TouristIds : fgSubs'[t] = 0]_vars

\* ---------------------------------------------------------------- C23
StatusRank(status) ==
    CASE status = "active" -> 0
      [] status = "acknowledged" -> 1
      [] OTHER -> 2

\* C23: the status of an alert only moves forward, active then acknowledged
\* then resolved: no operation sets a resolved alert back to acknowledged or
\* active, or an acknowledged one back to active.
C23_AlertStatusForward ==
    [][\A i \in DOMAIN alerts :
          i \in DOMAIN alerts' => StatusRank(alerts'[i].status) >= StatusRank(alerts[i].status)]_vars

\* ---------------------------------------------------------------- C24
NotificationsFor(rows, a) == { n \in DOMAIN rows : rows[n].alertId = a }

\* C24: over any number of sequential or concurrent runs of
\* processBackgroundNotifications, failed ones included, each alert gets at
\* most one notification record, and an alert is marked notification_sent
\* only after its notification was created.
C24_OneNotificationPerAlert ==
    [][\A a \in DOMAIN alerts :
          /\ Cardinality(NotificationsFor(notifications', a)) <= 1
          /\ (alerts'[a].notification_sent /\ ~alerts[a].notification_sent)
                 => NotificationsFor(notifications, a) # {}]_vars

\* ---------------------------------------------------------------- C25
\* No emergency button press gets as far as a communication record: the
\* three inserts into communications follow triggerPanicAlert's alert insert,
\* which no call reaches.
NoCommunicationWritten == communications = <<>>

\* ---------------------------------------------------------------- C26
\* stopLocationTracking was the last call made and no startLocationTracking
\* is still awaiting its subscription.
StoppedAndSettled == stopIsLastCall /\ pendingWatches = {}

\* C26: after stopLocationTracking has returned and every pending
\* startLocationTracking call has settled, no position watcher is still
\* active and no further location is logged, in every order of calls.
C26_StopLeavesNoWatcher ==
    [][StoppedAndSettled => (watchers = {} /\ location_logs' = location_logs)]_vars

\* ---------------------------------------------------------------- C27
\* pending, then sent or failed, then read.
NotificationStatusRank(status) ==
    CASE status = "pending" -> 0
      [] status \in {"sent", "failed"} -> 1
      [] status = "read" -> 2

\* C27: the stored status of a notification only moves forward (pending,
\* then sent or failed, then read), and a notification whose local delivery
\* succeeded has status sent or read once sendLocalNotification returned,
\* whatever the order of the delivery update and the received listener.
C27_NotificationStatusForward ==
    [][/\ \A i \in DOMAIN notifications :
            NotificationStatusRank(notifications'[i].status)
                >= NotificationStatusRank(notifications[i].status)
       /\ \A n \in scheduled' :
            (\A c \in alertCalls' : c.row # n.row)
                => notifications'[n.row].status \in {"sent", "read"}]_vars
====
